---- MODULE Spec2Model ----
(***************************************************************************)
(* A model of the Result / Option library of rusty-utils.                  *)
(*                                                                         *)
(* The library is a set of pure combinators; the state of the model is the *)
(* one call a client has made last (its operation, its arguments, the log  *)
(* of the callbacks the operation invoked, and its outcome: a returned     *)
(* value or a thrown one) and, for the *Async operations, the promises     *)
(* and the microtask queue of the host the call is suspended on.           *)
(*                                                                         *)
(* Spec          : calls on values, one at a time, and the *Async calls    *)
(* SpecOnObjects : containers held by reference, combinators applied to    *)
(*                 them in any sequence                                    *)
(* SpecMemoize   : a function made by memoize and the calls made to it     *)
(* SpecDebounce  : a function made by debounce, the host's clock and       *)
(*                 timers, and the calls made to it                        *)
(* SpecThrottle  : a function made by throttle, the host's clock and the   *)
(*                 calls made to it                                        *)
(* SpecRange     : a call of range, one iteration of its loop at a time    *)
(***************************************************************************)
EXTENDS Integers, Sequences, FiniteSets, TLC

VARIABLES
    op,        \* the operation of the current call ("idle" before the first)
    args,      \* the arguments of the current call
    log,       \* the callback invocations the call made, in order
    outcome,   \* how the call ended: returned / threw; pending / fulfilled / rejected
    futs,      \* the input promises of an *Async call
    order,     \* the indices of futs in the order the host settled them
    pall,      \* the promise Promise.all made: state, collected values, count left
    jobs,      \* the host's microtask queue (FIFO)
    pc,        \* the await an *Async call is suspended at ("none": not suspended)
    heap,      \* the container objects the client holds, by address
    born,      \* what each of them was when it was constructed
    ref,       \* the address the current call returned (0: none)
    keyFn,     \* the key function of the memoized function ("none": not made yet)
    cache,     \* its cache: a Map, the entries in insertion order
    hist,      \* the calls made to the memoized function, in order
    now,       \* the host's clock, in milliseconds (Date.now())
    timers,    \* the host's pending timeouts: id, due time, arguments
    timeoutId, \* debounce: the closure's timeoutId (0: undefined)
    delay,     \* debounce: its delay argument
    interval,  \* throttle: its interval argument
    lastCall,  \* throttle: the closure's lastCall
    calls,     \* the calls made to the debounced / throttled function, in order
    execs,     \* the executions of fn they led to, in order
    rangeI,    \* range: the loop variable i
    rangeResult \* range: the array result

libVars == <<op, args, log, outcome, futs, order, pall, jobs, pc>>
heapVars == <<heap, born, ref>>
\* the state a call on values, as opposed to one on held objects, leaves alone
memoVars == <<keyFn, cache, hist>>
limiterVars == <<now, timers, timeoutId, delay, interval, lastCall, calls, execs>>
loopVars == <<rangeI, rangeResult>>
outside == <<heapVars, memoVars, limiterVars, loopVars>>
vars == <<libVars, heapVars, memoVars, limiterVars, loopVars>>

---------------------------------------------------------------------------
(* Bounds *)

MaxLen == 3      \* longest array handed to combine / collectSome / combineAsync
MaxChain == 3    \* longest chain of andThen steps
MaxHeap == 4     \* most container objects a client holds, the shared none included
MaxCalls == 4    \* most calls made to one memoized function
MaxTime == 5     \* the clock runs for this many milliseconds after the limiter is made
MaxBurst == 3    \* most calls made to one debounced / throttled function

---------------------------------------------------------------------------
(* JavaScript values: a type tag t and a rendering x; Error instances also *)
(* carry the place they were created, which stands for object identity.    *)

Num(n) == [t |-> "number", x |-> n]
Str(s) == [t |-> "string", x |-> s]
Undefined == [t |-> "undefined", x |-> "undefined"]
Null == [t |-> "null", x |-> "null"]
False == [t |-> "boolean", x |-> "false"]
ErrorObj(message, id) == [t |-> "Error", x |-> message, id |-> id]
TypeErrorObj(message) == [t |-> "TypeError", x |-> message, id |-> "host"]
PlainObj == [t |-> "object", x |-> "{\"code\":1}"]
Circular == [t |-> "object", x |-> "circular"]

\* value != null / value == null of JavaScript
Nullish(v) == v.t \in {"undefined", "null"}
\* error instanceof Error (TypeError extends Error)
InstanceofError(v) == v.t \in {"Error", "TypeError"}

\* a promise a callback made and returned; the host settles it later
NewPromise == [t |-> "Promise", x |-> "pending"]
IsPromise(v) == v = NewPromise

\* how a call or a callback ends
Ret(v) == [st |-> "ret", val |-> v]
Throw(v) == [st |-> "throw", val |-> v]

\* JSON.stringify(v): undefined for undefined, a TypeError for a circular object
JSONstringify(v) ==
    CASE v.t = "undefined" -> Ret(Undefined)
      [] v.t = "string"    -> Ret(Str("\"" \o v.x \o "\""))
      [] v.t = "object" /\ v.x = "circular" ->
             Throw(TypeErrorObj("Converting circular structure to JSON"))
      [] v.t \in {"Error", "TypeError"} -> Ret(Str("{}"))
      [] OTHER             -> Ret(Str(v.x))

\* `${v}` for the values JSON.stringify returns
TemplateString(v) == v.x

\* payloads (T), error payloads (E), defaults and messages the client uses
Vals == {Num("0"), Num("1"), Str(""), Null, Undefined}
Errs == {Str("e1"), Str("e2"), ErrorObj("boom", "payload"), Circular, PlainObj, Undefined}
Defaults == {Num("9"), Undefined}
Messages == {"expected", "boom"}
\* what a client hands to fromNullable: T | null | undefined
Nullables == Vals \cup {False}

---------------------------------------------------------------------------
(* Result: types.ts of the result module *)

ok(value) == [_tag |-> "Ok", value |-> value]
err(error) == [_tag |-> "Err", error |-> error]
isOk(result) == result._tag = "Ok"
isErr_CopyPaste(result) == result._tag = "Ok"
isErr(result) == result._tag = "Err"

(* Option: option/types.ts *)

some(value) == [_tag |-> "Some", value |-> value]
none == [_tag |-> "None"]
isSome(option) == option._tag = "Some"
isNone(option) == option._tag = "None"
fromNullable_Truthy(value) ==
    IF value \notin {Null, Undefined, False, Num("0"), Str("")} THEN some(value) ELSE none
fromNullable(value) == IF ~Nullish(value) THEN some(value) ELSE none
toNullable(option) == IF isSome(option) THEN option.value ELSE Null
toUndefined(option) == IF isSome(option) THEN option.value ELSE Undefined

\* the failure variant of either type
Failed(c) == isErr(c) \/ isNone(c)

Results == {ok(v) : v \in Vals} \cup {err(e) : e \in Errs}
Options == {some(v) : v \in Vals} \cup {none}

---------------------------------------------------------------------------
(* The callbacks a client passes, by name, and what invoking one does.     *)

Transforms == {"identity", "constant", "throws"}          \* T -> U
BindsResult == {"okSame", "failA", "failB", "throws"}     \* T -> Result<U, E>
BindsOption == {"someSame", "toNone", "throws"}           \* T -> Option<U>
Mappers == {"absent", "mapped", "rethrow"}                \* errorMapper?: unknown -> E
Predicates == {"always", "never", "notNullish", "throws"} \* T -> boolean
Binaries == {"first", "second", "throws"}                 \* (T, U) -> V
Ternaries == {"first", "third", "throws"}                 \* (T, U, V) -> W
AsyncTransforms == {"identity", "async", "throws"}        \* T -> U | Promise<U>
AsyncBinds == {"async", "throws"}                         \* T -> Promise<Result<U, E>>
BranchesResult == Transforms \cup BindsResult \cup {"errSame"}  \* T -> R, E -> R
BranchesOption == Transforms \cup BindsOption                 \* T -> R, () -> R

Call(cb, v) ==
    CASE cb = "identity" -> Ret(v)
      [] cb = "constant" -> Ret(Str("k"))
      [] cb = "appendA"  -> Ret(Str(v.x \o "a"))
      [] cb = "appendB"  -> Ret(Str(v.x \o "b"))
      [] cb = "okSame"   -> Ret(ok(v))
      [] cb = "failA"    -> Ret(err(Str("A")))
      [] cb = "failB"    -> Ret(err(Str("B")))
      [] cb = "errSame"  -> Ret(err(v))
      [] cb = "someSame" -> Ret(some(v))
      [] cb = "toNone"   -> Ret(none)
      [] cb = "mapped"   -> Ret(Str("mapped:" \o v.x))
      [] cb = "rethrow"  -> Throw(v)
      [] cb = "async"    -> Ret(NewPromise)
      [] cb = "always"   -> Ret(TRUE)
      [] cb = "never"    -> Ret(FALSE)
      [] cb = "notNullish" -> Ret(~Nullish(v))
      [] cb = "throws"   -> Throw(ErrorObj("callback failed", "callback"))

\* a callback of two or three arguments, invoked on the tuple vs of them
CallN(cb, vs) ==
    CASE cb = "first"  -> Ret(vs[1])
      [] cb = "second" -> Ret(vs[2])
      [] cb = "third"  -> Ret(vs[3])
      [] cb = "throws" -> Throw(ErrorObj("callback failed", "callback"))

\* one entry of the invocation log
Invoked(cb, v) == [cb |-> cb, arg |-> v, out |-> Call(cb, v)]
InvokedN(cb, vs) == [cb |-> cb, arg |-> vs, out |-> CallN(cb, vs)]

\* what an operation did: how it ended and the callbacks it invoked
Did(end, invocations) == [st |-> end.st, val |-> end.val, log |-> invocations]

---------------------------------------------------------------------------
(* Result combinators: utils.ts of the result module (exported by index.ts *)
(* as mapResult, andThenResult, ...).                                      *)

mapResult_NoCall(result, fn) == Did(Ret(result), <<>>)
mapResult(result, fn) ==
    IF isOk(result)
    THEN LET c == Invoked(fn, result.value)
         IN  IF c.out.st = "throw"
             THEN Did(Throw(c.out.val), <<c>>)
             ELSE Did(Ret(ok(c.out.val)), <<c>>)
    ELSE Did(Ret(result), <<>>)

andThenResult_Eager(result, fn) ==
    LET c == Invoked(fn, IF isOk(result) THEN result.value ELSE result.error)
    IN  IF isOk(result) \/ c.out.st = "throw" THEN Did(c.out, <<c>>)
        ELSE Did(Ret(result), <<c>>)
andThenResult(result, fn) ==
    IF isOk(result)
    THEN LET c == Invoked(fn, result.value) IN Did(c.out, <<c>>)
    ELSE Did(Ret(result), <<>>)

mapErr_OnOk(result, fn) == mapResult(result, fn)
mapErr(result, fn) ==
    IF isErr(result)
    THEN LET c == Invoked(fn, result.error)
         IN  IF c.out.st = "throw"
             THEN Did(Throw(c.out.val), <<c>>)
             ELSE Did(Ret(err(c.out.val)), <<c>>)
    ELSE Did(Ret(result), <<>>)

orElseResult(result, fn) ==
    IF isErr(result)
    THEN LET c == Invoked(fn, result.error) IN Did(c.out, <<c>>)
    ELSE Did(Ret(result), <<>>)

unwrapOrElseResult(result, fn) ==
    IF isOk(result)
    THEN Did(Ret(result.value), <<>>)
    ELSE LET c == Invoked(fn, result.error) IN Did(c.out, <<c>>)

matchResult_Swapped(result, patterns) ==
    LET c == IF isOk(result) THEN Invoked(patterns.err, result.value)
             ELSE Invoked(patterns.ok, result.error)
    IN  Did(c.out, <<c>>)
matchResult(result, patterns) ==
    LET c == IF isOk(result) THEN Invoked(patterns.ok, result.value)
             ELSE Invoked(patterns.err, result.error)
    IN  Did(c.out, <<c>>)

filterResult_EagerErrorFn(result, predicate, errorFn) ==
    IF isOk(result)
    THEN LET p == Invoked(predicate, result.value)
             e == Invoked(errorFn, result.value)
         IN  IF p.out.st = "throw" THEN Did(Throw(p.out.val), <<p>>)
             ELSE IF e.out.st = "throw" THEN Did(Throw(e.out.val), <<p, e>>)
             ELSE Did(Ret(IF p.out.val THEN result ELSE err(e.out.val)), <<p, e>>)
    ELSE Did(Ret(result), <<>>)
filterResult(result, predicate, errorFn) ==
    IF isOk(result)
    THEN LET p == Invoked(predicate, result.value)
             e == Invoked(errorFn, result.value)
         IN  IF p.out.st = "throw" THEN Did(Throw(p.out.val), <<p>>)
             ELSE IF p.out.val THEN Did(Ret(result), <<p>>)
             ELSE IF e.out.st = "throw" THEN Did(Throw(e.out.val), <<p, e>>)
             ELSE Did(Ret(err(e.out.val)), <<p, e>>)
    ELSE Did(Ret(result), <<>>)

unwrapOrResult(result, defaultValue) ==
    Did(Ret(IF isOk(result) THEN result.value ELSE defaultValue), <<>>)

\* new Error(message), created by the library
NewError(message) == ErrorObj(message, "library")

unwrapResult(result) ==
    IF isOk(result)
    THEN Did(Ret(result.value), <<>>)
    ELSE LET error == result.error
             json == JSONstringify(error)
         IN  IF InstanceofError(error) THEN Did(Throw(error), <<>>)
             ELSE IF json.st = "throw" THEN Did(Throw(json.val), <<>>)
             ELSE Did(Throw(NewError("Unwrap failed: " \o TemplateString(json.val))), <<>>)

expectResult(result, message) ==
    IF isOk(result)
    THEN Did(Ret(result.value), <<>>)
    ELSE Did(Throw(NewError(message)), <<>>)

\* the loop of combine: values collected so far, next index to look at
RECURSIVE combineResultsLoop(_, _, _)
combineResultsLoop(results, i, values) ==
    IF i > Len(results) THEN ok(values)
    ELSE IF isErr(results[i]) THEN results[i]
    ELSE combineResultsLoop(results, i + 1, Append(values, results[i].value))

combineResults_LastErr(results) ==
    IF \A i \in 1..Len(results) : isOk(results[i])
    THEN ok([i \in 1..Len(results) |-> results[i].value])
    ELSE results[CHOOSE i \in 1..Len(results) :
                    isErr(results[i]) /\ \A j \in (i+1)..Len(results) : isOk(results[j])]
combineResults(results) == combineResultsLoop(results, 1, <<>>)

tryCatch_Rethrow(fn, errorMapper) ==
    LET c == [cb |-> "fn", arg |-> Undefined, out |-> fn]
    IN  IF fn.st = "ret" THEN Did(Ret(ok(fn.val)), <<c>>)
        ELSE IF errorMapper # "absent"
             THEN LET m == Invoked(errorMapper, fn.val)
                  IN  IF m.out.st = "throw"
                      THEN Did(Throw(m.out.val), <<c, m>>)
                      ELSE Did(Ret(err(m.out.val)), <<c, m>>)
             ELSE Did(Throw(fn.val), <<c>>)
tryCatch_Unmapped(fn, errorMapper) ==
    Did(Ret(IF fn.st = "ret" THEN ok(fn.val) ELSE err(fn.val)),
        <<[cb |-> "fn", arg |-> Undefined, out |-> fn]>>)
tryCatch(fn, errorMapper) ==
    LET c == [cb |-> "fn", arg |-> Undefined, out |-> fn]
    IN  IF fn.st = "ret" THEN Did(Ret(ok(fn.val)), <<c>>)
        ELSE IF errorMapper # "absent"
             THEN LET m == Invoked(errorMapper, fn.val)
                  IN  IF m.out.st = "throw"
                      THEN Did(Throw(m.out.val), <<c, m>>)
                      ELSE Did(Ret(err(m.out.val)), <<c, m>>)
             ELSE Did(Ret(err(fn.val)), <<c>>)

---------------------------------------------------------------------------
(* Option combinators: option/utils.ts *)

mapOption(option, fn) ==
    IF isSome(option)
    THEN LET c == Invoked(fn, option.value)
         IN  IF c.out.st = "throw"
             THEN Did(Throw(c.out.val), <<c>>)
             ELSE Did(Ret(some(c.out.val)), <<c>>)
    ELSE Did(Ret(none), <<>>)

andThenOption(option, fn) ==
    IF isSome(option)
    THEN LET c == Invoked(fn, option.value) IN Did(c.out, <<c>>)
    ELSE Did(Ret(none), <<>>)

orElseOption(option, fn) ==
    IF isSome(option)
    THEN Did(Ret(option), <<>>)
    ELSE LET c == Invoked(fn, Undefined) IN Did(c.out, <<c>>)

unwrapOrElseOption(option, fn) ==
    IF isSome(option)
    THEN Did(Ret(option.value), <<>>)
    ELSE LET c == Invoked(fn, Undefined) IN Did(c.out, <<c>>)

matchOption(option, patterns) ==
    LET c == IF isSome(option) THEN Invoked(patterns.some, option.value)
             ELSE Invoked(patterns.none, Undefined)
    IN  Did(c.out, <<c>>)

filterOption(option, predicate) ==
    IF isSome(option)
    THEN LET p == Invoked(predicate, option.value)
         IN  IF p.out.st = "throw" THEN Did(Throw(p.out.val), <<p>>)
             ELSE Did(Ret(IF p.out.val THEN option ELSE none), <<p>>)
    ELSE Did(Ret(none), <<>>)

map2(option1, option2, fn) ==
    IF isSome(option1) /\ isSome(option2)
    THEN LET c == InvokedN(fn, <<option1.value, option2.value>>)
         IN  IF c.out.st = "throw"
             THEN Did(Throw(c.out.val), <<c>>)
             ELSE Did(Ret(some(c.out.val)), <<c>>)
    ELSE Did(Ret(none), <<>>)

map3(option1, option2, option3, fn) ==
    IF isSome(option1) /\ isSome(option2) /\ isSome(option3)
    THEN LET c == InvokedN(fn, <<option1.value, option2.value, option3.value>>)
         IN  IF c.out.st = "throw"
             THEN Did(Throw(c.out.val), <<c>>)
             ELSE Did(Ret(some(c.out.val)), <<c>>)
    ELSE Did(Ret(none), <<>>)

RECURSIVE findSomeLoop(_, _)
findSomeLoop(options, i) ==
    IF i > Len(options) THEN none
    ELSE IF isSome(options[i]) THEN options[i]
    ELSE findSomeLoop(options, i + 1)

findSome(options) == findSomeLoop(options, 1)

unwrapOrOption_Nullish(option, defaultValue) ==
    Did(Ret(IF isSome(option) /\ ~Nullish(option.value)
            THEN option.value ELSE defaultValue), <<>>)
unwrapOrOption(option, defaultValue) ==
    Did(Ret(IF isSome(option) THEN option.value ELSE defaultValue), <<>>)

unwrapOption(option) ==
    IF isSome(option)
    THEN Did(Ret(option.value), <<>>)
    ELSE Did(Throw(NewError("Called unwrap on a None value")), <<>>)

expectOption(option, message) ==
    IF isSome(option)
    THEN Did(Ret(option.value), <<>>)
    ELSE Did(Throw(NewError(message)), <<>>)

RECURSIVE combineOptionsLoop(_, _, _)
combineOptionsLoop(options, i, values) ==
    IF i > Len(options) THEN some(values)
    ELSE IF isNone(options[i]) THEN none
    ELSE combineOptionsLoop(options, i + 1, Append(values, options[i].value))

combineOptions(options) == combineOptionsLoop(options, 1, <<>>)

RECURSIVE collectSomeLoop(_, _, _)
collectSomeLoop(options, i, values) ==
    IF i > Len(options) THEN values
    ELSE collectSomeLoop(options, i + 1,
                         IF isSome(options[i]) THEN Append(values, options[i].value)
                         ELSE values)

collectSome_Stop(options) ==
    IF \E i \in 1..Len(options) : isNone(options[i])
    THEN collectSomeLoop(SubSeq(options, 1,
             (CHOOSE i \in 1..Len(options) : isNone(options[i])
                 /\ \A j \in 1..(i-1) : isSome(options[j])) - 1), 1, <<>>)
    ELSE collectSomeLoop(options, 1, <<>>)
collectSome(options) == collectSomeLoop(options, 1, <<>>)

---------------------------------------------------------------------------
(* Client code: a chain andThen(andThen(andThen(r, f1), f2), f3). The inner *)
(* call is evaluated first; a throw ends the evaluation of the expression. *)

andThen(flavor, container, fn) ==
    IF flavor = "Result" THEN andThenResult(container, fn)
    ELSE andThenOption(container, fn)

RECURSIVE andThenChain(_, _, _, _)
andThenChain(flavor, cur, fns, i) ==
    IF i > Len(fns) \/ cur.st = "throw" THEN cur
    ELSE LET d == andThen(flavor, cur.val, fns[i])
         IN  andThenChain(flavor, Did(d, cur.log \o d.log), fns, i + 1)

---------------------------------------------------------------------------
(* pipe and compose (functional/index.ts) *)

\* functions.reduce((acc, fn) => fn(acc), value), from index i on: a throw of
\* a transform ends the reduction
RECURSIVE reduce(_, _, _)
reduce(functions, i, acc) ==
    IF i > Len(functions) \/ acc.st = "throw" THEN acc
    ELSE LET c == Invoked(functions[i], acc.val)
         IN  reduce(functions, i + 1, Did(c.out, Append(acc.log, c)))

\* functions.reduceRight((acc, fn) => fn(acc), value), from index i down
RECURSIVE reduceRight(_, _, _)
reduceRight(functions, i, acc) ==
    IF i < 1 \/ acc.st = "throw" THEN acc
    ELSE LET c == Invoked(functions[i], acc.val)
         IN  reduceRight(functions, i - 1, Did(c.out, Append(acc.log, c)))

pipe(value, functions) == reduce(functions, 1, Did(Ret(value), <<>>))

\* compose(...functions)(value)
compose_LeftToRight(functions, value) == reduce(functions, 1, Did(Ret(value), <<>>))
compose(functions, value) == reduceRight(functions, Len(functions), Did(Ret(value), <<>>))

---------------------------------------------------------------------------
(* safeGet, safeProp and safeJsonParse (functional/index.ts) *)

\* array[index] of JavaScript (indices from 0): undefined outside the array
ArrayAt(array, index) ==
    IF index >= 0 /\ index < Len(array) THEN array[index + 1] ELSE Undefined

\* obj[key]: undefined for a property the object does not have
PropAt(obj, key) == IF key \in DOMAIN obj THEN obj[key] ELSE Undefined

SyntaxErrorObj == [t |-> "SyntaxError", x |-> "Unexpected token", id |-> "host"]

\* JSON.parse(json) on the texts of JsonTexts
JSONparse(json) ==
    CASE json = "1"         -> Ret(Num("1"))
      [] json = "null"      -> Ret(Null)
      [] json = "\"\""      -> Ret(Str(""))
      [] json = "{\"code\":1}" -> Ret(PlainObj)
      [] OTHER              -> Throw(SyntaxErrorObj)

safeGet(array, index) ==
    IF index >= 0 /\ index < Len(array) THEN some(ArrayAt(array, index)) ELSE none

safeProp(obj, key) ==
    IF PropAt(obj, key) # Undefined THEN some(PropAt(obj, key)) ELSE none

safeJsonParse(json) ==
    LET parsed == JSONparse(json)
    IN  IF parsed.st = "throw" THEN none ELSE some(parsed.val)

---------------------------------------------------------------------------
(* The inputs a client draws its arguments from *)

Arrays(S) == UNION {[1..n -> S] : n \in 0..MaxLen}
Chains(S) == UNION {[1..n -> S] : n \in 1..MaxChain}
Thrown == {ErrorObj("boom", "thrown"), Str("oops"), Undefined}
Thunks == {Ret(v) : v \in Vals} \cup {Throw(t) : t \in Thrown}    \* fn: () => T
Flavors == {"Result", "Option"}
PipeTransforms == {"appendA", "appendB", "constant", "throws"}    \* (arg: T) => T
PipeValues == {Str(""), Str("x")}
Elements == {Num("1"), Null, Undefined}      \* undefined: stored, or a hole of the array
Indices == (0 - 1)..MaxLen
Keys == {"a", "b"}
Objects == UNION {[ks -> {Num("1"), Undefined}] : ks \in SUBSET Keys}
JsonTexts == {"1", "null", "\"\"", "{\"code\":1}", "", "undefined", "{bad"}

NoPromise == [st |-> "none", values |-> <<>>, left |-> 0, reason |-> [t |-> "undefined", x |-> "undefined"]]
Idle == [st |-> "idle", val |-> Undefined]

Init ==
    /\ op = "idle"
    /\ args = <<>>
    /\ log = <<>>
    /\ outcome = Idle
    /\ futs = <<>>
    /\ order = <<>>
    /\ pall = NoPromise
    /\ jobs = <<>>
    /\ pc = "none"
    /\ heap = <<none>>
    /\ born = <<none>>
    /\ ref = 0
    /\ keyFn = "none"
    /\ cache = <<>>
    /\ hist = <<>>
    /\ now = 0
    /\ timers = {}
    /\ timeoutId = 0
    /\ delay = 0
    /\ interval = 0
    /\ lastCall = 0
    /\ calls = <<>>
    /\ execs = <<>>
    /\ rangeI = 0
    /\ rangeResult = <<>>

\* a synchronous call: it runs to its end in the caller's context
Finish(name, a, d) ==
    /\ op' = name
    /\ args' = a
    /\ log' = d.log
    /\ outcome' = [st |-> d.st, val |-> d.val]
    /\ UNCHANGED <<futs, order, pall, jobs, pc>>
    /\ UNCHANGED outside

\* the client drops the call it made and is free to make the next
Discard ==
    /\ op # "idle"
    /\ op' = "idle"
    /\ args' = <<>>
    /\ log' = <<>>
    /\ outcome' = Idle
    /\ futs' = <<>>
    /\ order' = <<>>
    /\ pall' = NoPromise
    /\ jobs' = <<>>
    /\ pc' = "none"
    /\ UNCHANGED outside

Ok ==
    /\ op = "idle"
    /\ \E v \in Vals : Finish("ok", [value |-> v], Did(Ret(ok(v)), <<>>))

Err ==
    /\ op = "idle"
    /\ \E e \in Errs : Finish("err", [error |-> e], Did(Ret(err(e)), <<>>))

Some ==
    /\ op = "idle"
    /\ \E v \in Vals : Finish("some", [value |-> v], Did(Ret(some(v)), <<>>))

None ==
    /\ op = "idle"
    /\ Finish("none", <<>>, Did(Ret(none), <<>>))

FromNullable ==
    /\ op = "idle"
    /\ \E v \in Nullables : Finish("fromNullable", [value |-> v], Did(Ret(fromNullable(v)), <<>>))

MapResult ==
    /\ op = "idle"
    /\ \E r \in Results, fn \in Transforms :
           Finish("mapResult", [result |-> r, fn |-> fn], mapResult(r, fn))

MapOption ==
    /\ op = "idle"
    /\ \E o \in Options, fn \in Transforms :
           Finish("mapOption", [option |-> o, fn |-> fn], mapOption(o, fn))

AndThenResult ==
    /\ op = "idle"
    /\ \E r \in Results, fn \in BindsResult :
           Finish("andThenResult", [result |-> r, fn |-> fn], andThenResult(r, fn))

AndThenOption ==
    /\ op = "idle"
    /\ \E o \in Options, fn \in BindsOption :
           Finish("andThenOption", [option |-> o, fn |-> fn], andThenOption(o, fn))

AndThenChain ==
    /\ op = "idle"
    /\ \E flavor \in Flavors :
           \E c \in IF flavor = "Result" THEN Results ELSE Options,
              fns \in Chains(IF flavor = "Result" THEN BindsResult ELSE BindsOption) :
               Finish("andThenChain", [flavor |-> flavor, container |-> c, fns |-> fns],
                      andThenChain(flavor, Did(Ret(c), <<>>), fns, 1))

UnwrapOrResult ==
    /\ op = "idle"
    /\ \E r \in Results, d \in Defaults :
           Finish("unwrapOrResult", [result |-> r, defaultValue |-> d], unwrapOrResult(r, d))

UnwrapOrOption ==
    /\ op = "idle"
    /\ \E o \in Options, d \in Defaults :
           Finish("unwrapOrOption", [option |-> o, defaultValue |-> d], unwrapOrOption(o, d))

UnwrapResult ==
    /\ op = "idle"
    /\ \E r \in Results : Finish("unwrapResult", [result |-> r], unwrapResult(r))

UnwrapOption ==
    /\ op = "idle"
    /\ \E o \in Options : Finish("unwrapOption", [option |-> o], unwrapOption(o))

ExpectResult ==
    /\ op = "idle"
    /\ \E r \in Results, m \in Messages :
           Finish("expectResult", [result |-> r, message |-> m], expectResult(r, m))

ExpectOption ==
    /\ op = "idle"
    /\ \E o \in Options, m \in Messages :
           Finish("expectOption", [option |-> o, message |-> m], expectOption(o, m))

CombineResults ==
    /\ op = "idle"
    /\ \E rs \in Arrays(Results) :
           Finish("combineResults", [results |-> rs], Did(Ret(combineResults(rs)), <<>>))

CombineOptions ==
    /\ op = "idle"
    /\ \E os \in Arrays(Options) :
           Finish("combineOptions", [options |-> os], Did(Ret(combineOptions(os)), <<>>))

CollectSome ==
    /\ op = "idle"
    /\ \E os \in Arrays(Options) :
           Finish("collectSome", [options |-> os], Did(Ret(collectSome(os)), <<>>))

TryCatch ==
    /\ op = "idle"
    /\ \E fn \in Thunks, errorMapper \in Mappers :
           Finish("tryCatch", [fn |-> fn, errorMapper |-> errorMapper],
                  tryCatch(fn, errorMapper))

ToNullable ==
    /\ op = "idle"
    /\ \E o \in Options : Finish("toNullable", [option |-> o], Did(Ret(toNullable(o)), <<>>))

ToUndefined ==
    /\ op = "idle"
    /\ \E o \in Options : Finish("toUndefined", [option |-> o], Did(Ret(toUndefined(o)), <<>>))

MapErr ==
    /\ op = "idle"
    /\ \E r \in Results, fn \in Transforms :
           Finish("mapErr", [result |-> r, fn |-> fn], mapErr(r, fn))

OrElseResult ==
    /\ op = "idle"
    /\ \E r \in Results, fn \in BindsResult :
           Finish("orElseResult", [result |-> r, fn |-> fn], orElseResult(r, fn))

OrElseOption ==
    /\ op = "idle"
    /\ \E o \in Options, fn \in BindsOption :
           Finish("orElseOption", [option |-> o, fn |-> fn], orElseOption(o, fn))

UnwrapOrElseResult ==
    /\ op = "idle"
    /\ \E r \in Results, fn \in Transforms :
           Finish("unwrapOrElseResult", [result |-> r, fn |-> fn], unwrapOrElseResult(r, fn))

UnwrapOrElseOption ==
    /\ op = "idle"
    /\ \E o \in Options, fn \in Transforms :
           Finish("unwrapOrElseOption", [option |-> o, fn |-> fn], unwrapOrElseOption(o, fn))

MatchResult ==
    /\ op = "idle"
    /\ \E r \in Results, f \in BranchesResult, g \in BranchesResult :
           Finish("matchResult", [result |-> r, patterns |-> [ok |-> f, err |-> g]],
                  matchResult(r, [ok |-> f, err |-> g]))

MatchOption ==
    /\ op = "idle"
    /\ \E o \in Options, f \in BranchesOption, g \in BranchesOption :
           Finish("matchOption", [option |-> o, patterns |-> [some |-> f, none |-> g]],
                  matchOption(o, [some |-> f, none |-> g]))

FilterResult ==
    /\ op = "idle"
    /\ \E r \in Results, predicate \in Predicates, errorFn \in Transforms :
           Finish("filterResult", [result |-> r, predicate |-> predicate, errorFn |-> errorFn],
                  filterResult(r, predicate, errorFn))

FilterOption ==
    /\ op = "idle"
    /\ \E o \in Options, predicate \in Predicates :
           Finish("filterOption", [option |-> o, predicate |-> predicate],
                  filterOption(o, predicate))

Map2 ==
    /\ op = "idle"
    /\ \E o1 \in Options, o2 \in Options, fn \in Binaries :
           Finish("map2", [option1 |-> o1, option2 |-> o2, fn |-> fn], map2(o1, o2, fn))

Map3 ==
    /\ op = "idle"
    /\ \E o1 \in Options, o2 \in Options, o3 \in Options, fn \in Ternaries :
           Finish("map3", [option1 |-> o1, option2 |-> o2, option3 |-> o3, fn |-> fn],
                  map3(o1, o2, o3, fn))

FindSome ==
    /\ op = "idle"
    /\ \E os \in Arrays(Options) :
           Finish("findSome", [options |-> os], Did(Ret(findSome(os)), <<>>))

Pipe ==
    /\ op = "idle"
    /\ \E value \in PipeValues, functions \in Arrays(PipeTransforms) :
           Finish("pipe", [value |-> value, functions |-> functions],
                  pipe(value, functions))

Compose ==
    /\ op = "idle"
    /\ \E value \in PipeValues, functions \in Arrays(PipeTransforms) :
           Finish("compose", [value |-> value, functions |-> functions],
                  compose(functions, value))

SafeGet ==
    /\ op = "idle"
    /\ \E array \in Arrays(Elements), index \in Indices :
           Finish("safeGet", [array |-> array, index |-> index],
                  Did(Ret(safeGet(array, index)), <<>>))

SafeProp ==
    /\ op = "idle"
    /\ \E obj \in Objects, key \in Keys :
           Finish("safeProp", [obj |-> obj, key |-> key],
                  Did(Ret(safeProp(obj, key)), <<>>))

SafeJsonParse ==
    /\ op = "idle"
    /\ \E json \in JsonTexts :
           Finish("safeJsonParse", [json |-> json], Did(Ret(safeJsonParse(json)), <<>>))

---------------------------------------------------------------------------
(* combineAsync (result/utils.ts and option/utils.ts):                     *)
(*     const resolved = await Promise.all(results);                        *)
(*     return combine(resolved);                                           *)
(* The host settles the input promises in any order. Each settlement       *)
(* queues the reaction Promise.all registered on that input; the reaction  *)
(* that settles the Promise.all promise queues the continuation of the     *)
(* await. Microtasks run first in, first out.                              *)

AsyncResults == {ok(Num("0")), ok(Num("1")), err(Str("e1")), err(Str("e2"))}
AsyncOptions == {some(Num("0")), some(Num("1")), none}
Rejections == {ErrorObj("rejected", "host")}

Pending == [st |-> "pending", val |-> Undefined]
Fulfilled(v) == [st |-> "fulfilled", val |-> v]
Rejected(reason) == [st |-> "rejected", val |-> reason]
Hole == [_tag |-> "hole"]

CombineAsyncOps == {"combineResultsAsync", "combineOptionsAsync"}
MapAsyncOps == {"mapResultAsync", "mapOptionAsync"}
AndThenAsyncOps == {"andThenResultAsync", "andThenOptionAsync"}
AsyncOps == CombineAsyncOps \cup MapAsyncOps \cup AndThenAsyncOps \cup {"tryCatchAsync"}
OnResults == {"combineResultsAsync", "mapResultAsync", "andThenResultAsync"}

ResumeJob == [kind |-> "resume", i |-> 0]
ReactJob(i) == [kind |-> "react", i |-> i]

\* Promise.all(promises): fulfilled at once with [] for no promises
PromiseAll(n) ==
    [st |-> IF n = 0 THEN "fulfilled" ELSE "pending",
     values |-> [i \in 1..n |-> Hole],
     left |-> n,
     reason |-> Undefined]

\* Promise.all's reaction to input i fulfilling with v: the value goes to slot i
PromiseAllResolve_Arrival(p, i, v) ==
    [p EXCEPT !.values[Len(p.values) - p.left + 1] = v,
              !.left = p.left - 1,
              !.st = IF p.left = 1 THEN "fulfilled" ELSE "pending"]
PromiseAllResolve_ShortCircuit(p, i, v) ==
    IF Failed(v)
    THEN [p EXCEPT !.values = <<v>>, !.left = 0, !.st = "fulfilled"]
    ELSE [p EXCEPT !.values[i] = v,
                   !.left = p.left - 1,
                   !.st = IF p.left = 1 THEN "fulfilled" ELSE "pending"]
PromiseAllResolve(p, i, v) ==
    [p EXCEPT !.values[i] = v,
              !.left = p.left - 1,
              !.st = IF p.left = 1 THEN "fulfilled" ELSE "pending"]

\* Promise.all's reaction to an input rejecting: the first rejection wins
PromiseAllReject(p, reason) ==
    [p EXCEPT !.st = "rejected", !.reason = reason]

\* the code after the await: return combine(resolved)
combineAsyncReturn(name, resolved) ==
    IF name = "combineResultsAsync" THEN combineResults(resolved)
    ELSE combineOptions(resolved)

\* a step of an async function: it settles the call's promise, or awaits
Settles(p, invocations) == [st |-> p.st, val |-> p.val, log |-> invocations]
Awaits(v, invocations) == [st |-> "await", val |-> v, log |-> invocations]

\* mapAsync / andThenAsync once `await result` (`await option`) has settled
asyncAfterInput(name, input, fn) ==
    IF input.st = "rejected" THEN Settles(Rejected(input.val), <<>>)
    ELSE IF Failed(input.val)
         THEN Settles(Fulfilled(IF name \in OnResults THEN input.val ELSE none), <<>>)
         ELSE LET c == Invoked(fn, input.val.value)
              IN  IF c.out.st = "throw" THEN Settles(Rejected(c.out.val), <<c>>)
                  ELSE Awaits(c.out.val, <<c>>)

\* mapAsync / andThenAsync once `await fn(resolved.value)` has settled
asyncAfterFn_Unwrapped(name, awaited) ==
    IF awaited.st = "rejected" THEN Rejected(awaited.val) ELSE Fulfilled(awaited.val)
asyncAfterFn(name, awaited) ==
    IF awaited.st = "rejected" THEN Rejected(awaited.val)
    ELSE Fulfilled(CASE name = "mapResultAsync" -> ok(awaited.val)
                     [] name = "mapOptionAsync" -> some(awaited.val)
                     [] OTHER                     -> awaited.val)

\* the catch block of tryCatchAsync
tryCatchAsyncCatch(error, errorMapper) ==
    IF errorMapper # "absent"
    THEN LET m == Invoked(errorMapper, error)
         IN  IF m.out.st = "throw" THEN Settles(Rejected(m.out.val), <<m>>)
             ELSE Settles(Fulfilled(err(m.out.val)), <<m>>)
    ELSE Settles(Fulfilled(err(error)), <<>>)

\* tryCatchAsync once `await fn()` has settled
tryCatchAsyncAfterFn_NoCatch(awaited, errorMapper) ==
    IF awaited.st = "rejected" THEN Settles(Rejected(awaited.val), <<>>)
    ELSE Settles(Fulfilled(ok(awaited.val)), <<>>)
tryCatchAsyncAfterFn(awaited, errorMapper) ==
    IF awaited.st = "rejected" THEN tryCatchAsyncCatch(awaited.val, errorMapper)
    ELSE Settles(Fulfilled(ok(awaited.val)), <<>>)

AsyncVals == {Num("1"), Undefined}
AsyncThunks == {Ret(NewPromise)} \cup {Throw(t) : t \in Thrown}    \* fn: () => Promise<T>

\* what the host may settle promise i of the call with
SettleWith(i) ==
    {Rejected(r) : r \in Rejections} \cup
    {Fulfilled(v) : v \in
        IF op = "tryCatchAsync" \/ (op \in MapAsyncOps /\ i = 2) THEN AsyncVals
        ELSE IF op \in OnResults THEN AsyncResults
        ELSE AsyncOptions}

CombineAsync ==
    /\ op = "idle"
    /\ \E name \in CombineAsyncOps, n \in 0..MaxLen :
        /\ op' = name
        /\ args' = [n |-> n]
        /\ log' = <<>>
        /\ outcome' = Pending
        /\ futs' = [i \in 1..n |-> Pending]
        /\ order' = <<>>
        /\ pall' = PromiseAll(n)
        /\ jobs' = IF n = 0 THEN <<ResumeJob>> ELSE <<>>
        /\ pc' = "awaitAll"
    /\ UNCHANGED outside

MapAsync ==
    /\ op = "idle"
    /\ \E name \in MapAsyncOps, fn \in AsyncTransforms :
        /\ op' = name
        /\ args' = [fn |-> fn]
    /\ log' = <<>>
    /\ outcome' = Pending
    /\ futs' = <<Pending>>
    /\ pc' = "awaitInput"
    /\ UNCHANGED <<order, pall, jobs>>
    /\ UNCHANGED outside

AndThenAsync ==
    /\ op = "idle"
    /\ \E name \in AndThenAsyncOps, fn \in AsyncBinds :
        /\ op' = name
        /\ args' = [fn |-> fn]
    /\ log' = <<>>
    /\ outcome' = Pending
    /\ futs' = <<Pending>>
    /\ pc' = "awaitInput"
    /\ UNCHANGED <<order, pall, jobs>>
    /\ UNCHANGED outside

\* fn runs in the call: a throw goes to the catch block at once
TryCatchAsync ==
    /\ op = "idle"
    /\ \E fn \in AsyncThunks, errorMapper \in Mappers :
        LET c == [cb |-> "fn", arg |-> Undefined, out |-> fn]
            d == tryCatchAsyncCatch(fn.val, errorMapper)
        IN  /\ op' = "tryCatchAsync"
            /\ args' = [fn |-> fn, errorMapper |-> errorMapper]
            /\ IF fn.st = "throw"
               THEN /\ log' = <<c>> \o d.log
                    /\ outcome' = [st |-> d.st, val |-> d.val]
                    /\ futs' = <<>>
                    /\ pc' = "done"
               ELSE /\ log' = <<c>>
                    /\ outcome' = Pending
                    /\ futs' = <<Pending>>
                    /\ pc' = "awaitFn"
    /\ UNCHANGED <<order, pall, jobs>>
    /\ UNCHANGED outside

\* the host settles promise i; the reaction registered on it is queued
Settle ==
    /\ op \in AsyncOps
    /\ \E i \in 1..Len(futs) :
        /\ futs[i].st = "pending"
        /\ \E s \in SettleWith(i) : futs' = [futs EXCEPT ![i] = s]
        /\ order' = Append(order, i)
        /\ jobs' = Append(jobs, IF pc = "awaitAll" THEN ReactJob(i) ELSE ResumeJob)
    /\ UNCHANGED <<op, args, log, outcome, pall, pc>>
    /\ UNCHANGED outside

\* the microtask at the head of the queue is Promise.all's reaction to an input
React ==
    /\ jobs # <<>>
    /\ Head(jobs).kind = "react"
    /\ LET i == Head(jobs).i
           p == IF pall.st # "pending" THEN pall
                ELSE IF futs[i].st = "fulfilled" THEN PromiseAllResolve(pall, i, futs[i].val)
                ELSE PromiseAllReject(pall, futs[i].val)
       IN  /\ pall' = p
           /\ jobs' = IF pall.st = "pending" /\ p.st # "pending"
                      THEN Append(Tail(jobs), ResumeJob)
                      ELSE Tail(jobs)
    /\ UNCHANGED <<op, args, log, outcome, futs, order, pc>>
    /\ UNCHANGED outside

\* the microtask at the head of the queue is the continuation of
\* `await Promise.all(...)` in combineAsync
Resume ==
    /\ jobs # <<>>
    /\ Head(jobs).kind = "resume"
    /\ pc = "awaitAll"
    /\ outcome' = IF pall.st = "fulfilled"
                  THEN Fulfilled(combineAsyncReturn(op, pall.values))
                  ELSE Rejected(pall.reason)
    /\ jobs' = Tail(jobs)
    /\ pc' = "done"
    /\ UNCHANGED <<op, args, log, futs, order, pall>>
    /\ UNCHANGED outside

\* ... of `await result` in mapAsync / andThenAsync: a value fn returns is
\* awaited as a promise fulfilled with it
ResumeInput ==
    /\ jobs # <<>>
    /\ Head(jobs).kind = "resume"
    /\ pc = "awaitInput"
    /\ LET d == asyncAfterInput(op, futs[1], args.fn)
       IN  /\ log' = d.log
           /\ IF d.st = "await"
              THEN /\ outcome' = outcome
                   /\ futs' = Append(futs, IF IsPromise(d.val) THEN Pending
                                           ELSE Fulfilled(d.val))
                   /\ jobs' = IF IsPromise(d.val) THEN Tail(jobs)
                              ELSE Append(Tail(jobs), ResumeJob)
                   /\ pc' = "awaitFn"
              ELSE /\ outcome' = [st |-> d.st, val |-> d.val]
                   /\ futs' = futs
                   /\ jobs' = Tail(jobs)
                   /\ pc' = "done"
    /\ UNCHANGED <<op, args, order, pall>>
    /\ UNCHANGED outside

\* ... of `await fn(...)` in mapAsync / andThenAsync / tryCatchAsync
ResumeFn ==
    /\ jobs # <<>>
    /\ Head(jobs).kind = "resume"
    /\ pc = "awaitFn"
    /\ LET awaited == futs[Len(futs)]
           d == IF op = "tryCatchAsync"
                THEN tryCatchAsyncAfterFn(awaited, args.errorMapper)
                ELSE Settles(asyncAfterFn(op, awaited), <<>>)
       IN  /\ outcome' = [st |-> d.st, val |-> d.val]
           /\ log' = log \o d.log
    /\ jobs' = Tail(jobs)
    /\ pc' = "done"
    /\ UNCHANGED <<op, args, futs, order, pall>>
    /\ UNCHANGED outside

AsyncStep ==
    \/ CombineAsync \/ MapAsync \/ AndThenAsync \/ TryCatchAsync
    \/ Settle
    \/ React
    \/ Resume \/ ResumeInput \/ ResumeFn

SyncCall ==
    \/ Ok \/ Err \/ Some \/ None \/ FromNullable
    \/ MapResult \/ MapOption
    \/ AndThenResult \/ AndThenOption \/ AndThenChain
    \/ UnwrapOrResult \/ UnwrapOrOption
    \/ UnwrapResult \/ UnwrapOption
    \/ ExpectResult \/ ExpectOption
    \/ CombineResults \/ CombineOptions \/ CollectSome
    \/ TryCatch
    \/ ToNullable \/ ToUndefined
    \/ MapErr \/ OrElseResult \/ OrElseOption
    \/ UnwrapOrElseResult \/ UnwrapOrElseOption
    \/ MatchResult \/ MatchOption
    \/ FilterResult \/ FilterOption
    \/ Map2 \/ Map3 \/ FindSome
    \/ Pipe \/ Compose
    \/ SafeGet \/ SafeProp \/ SafeJsonParse

Next ==
    \/ SyncCall
    \/ AsyncStep
    \/ Discard

Spec == Init /\ [][Next]_vars

---------------------------------------------------------------------------
(* Containers as objects. ok(), err() and some() each make a new object     *)
(* literal; none is one shared object. A combinator is handed a reference   *)
(* to its input and returns a reference: to its input where the code        *)
(* returns `result` / `option`, to the shared none where it returns `none`  *)
(* (or a callback does), and to a new object where it returns ok(...),      *)
(* err(...), some(...) or what a callback made. No combinator assigns to a  *)
(* field of its input.                                                      *)

NoneRef == 1

HeapResults == {ok(Num("1")), err(Str("e1"))}
HeapOptions == {some(Num("1"))}
\* the callbacks the client passes in these calls
HeapTransforms == {"constant", "throws"}
HeapBindsResult == {"okSame", "failA"}
HeapBindsOption == {"someSame", "toNone"}
HeapPredicates == {"always", "never"}
ResultRefs == {a \in 1..Len(heap) : heap[a]._tag \in {"Ok", "Err"}}
OptionRefs == {a \in 1..Len(heap) : heap[a]._tag \in {"Some", "None"}}

\* the objects after a call on the object at a that ended as d, and the
\* reference the call returned
Store_InPlace(h, a, d, returnsInput) ==
    IF d.st = "throw" THEN [heap |-> h, ref |-> 0]
    ELSE IF d.val = none THEN [heap |-> h, ref |-> NoneRef]
    ELSE IF a # NoneRef THEN [heap |-> [h EXCEPT ![a] = d.val], ref |-> a]
    ELSE [heap |-> Append(h, d.val), ref |-> Len(h) + 1]
Store(h, a, d, returnsInput) ==
    IF d.st = "throw" THEN [heap |-> h, ref |-> 0]
    ELSE IF returnsInput THEN [heap |-> h, ref |-> a]
    ELSE IF d.val = none THEN [heap |-> h, ref |-> NoneRef]
    ELSE [heap |-> Append(h, d.val), ref |-> Len(h) + 1]

\* a constructor call: a new object
Construct ==
    /\ Len(heap) < MaxHeap
    /\ \E c \in HeapResults \cup HeapOptions :
        /\ op' = (CASE isOk(c) -> "ok" [] isErr(c) -> "err" [] OTHER -> "some")
        /\ args' = IF isErr(c) THEN [error |-> c.error] ELSE [value |-> c.value]
        /\ outcome' = Ret(c)
        /\ heap' = Append(heap, c)
        /\ born' = Append(born, c)
    /\ log' = <<>>
    /\ ref' = Len(heap) + 1
    /\ UNCHANGED <<futs, order, pall, jobs, pc, memoVars, limiterVars, loopVars>>

\* a combinator call on the object at a, with callback(s) fns, that ends as d
CallOn(a, fns, d, returnsInput) ==
    LET s == Store(heap, a, d, returnsInput)
    IN  /\ Len(s.heap) <= MaxHeap
        /\ args' = [self |-> a, fns |-> fns]
        /\ log' = d.log
        /\ outcome' = [st |-> d.st, val |-> d.val]
        /\ heap' = s.heap
        /\ born' = IF Len(s.heap) > Len(heap) THEN Append(born, d.val) ELSE born
        /\ ref' = s.ref
        /\ UNCHANGED <<futs, order, pall, jobs, pc, memoVars, limiterVars, loopVars>>

MapResultOn ==
    /\ op' = "mapResult"
    /\ \E a \in ResultRefs, fn \in HeapTransforms :
           CallOn(a, <<fn>>, mapResult(heap[a], fn), isErr(heap[a]))

MapErrOn ==
    /\ op' = "mapErr"
    /\ \E a \in ResultRefs, fn \in HeapTransforms :
           CallOn(a, <<fn>>, mapErr(heap[a], fn), isOk(heap[a]))

AndThenResultOn ==
    /\ op' = "andThenResult"
    /\ \E a \in ResultRefs, fn \in HeapBindsResult :
           CallOn(a, <<fn>>, andThenResult(heap[a], fn), isErr(heap[a]))

OrElseResultOn ==
    /\ op' = "orElseResult"
    /\ \E a \in ResultRefs, fn \in HeapBindsResult :
           CallOn(a, <<fn>>, orElseResult(heap[a], fn), isOk(heap[a]))

FilterResultOn ==
    /\ op' = "filterResult"
    /\ \E a \in ResultRefs, predicate \in HeapPredicates, errorFn \in HeapTransforms :
           LET d == filterResult(heap[a], predicate, errorFn)
           IN  CallOn(a, <<predicate, errorFn>>, d, isErr(heap[a]) \/ Len(d.log) = 1)

MapOptionOn ==
    /\ op' = "mapOption"
    /\ \E a \in OptionRefs, fn \in HeapTransforms :
           CallOn(a, <<fn>>, mapOption(heap[a], fn), FALSE)

AndThenOptionOn ==
    /\ op' = "andThenOption"
    /\ \E a \in OptionRefs, fn \in HeapBindsOption :
           CallOn(a, <<fn>>, andThenOption(heap[a], fn), FALSE)

OrElseOptionOn ==
    /\ op' = "orElseOption"
    /\ \E a \in OptionRefs, fn \in HeapBindsOption :
           CallOn(a, <<fn>>, orElseOption(heap[a], fn), isSome(heap[a]))

FilterOptionOn ==
    /\ op' = "filterOption"
    /\ \E a \in OptionRefs, predicate \in HeapPredicates :
           LET d == filterOption(heap[a], predicate)
           IN  CallOn(a, <<predicate>>, d, d.st = "ret" /\ isSome(d.val))

NextOnObjects ==
    \/ Construct
    \/ MapResultOn \/ MapErrOn \/ AndThenResultOn \/ OrElseResultOn \/ FilterResultOn
    \/ MapOptionOn \/ AndThenOptionOn \/ OrElseOptionOn \/ FilterOptionOn

SpecOnObjects == Init /\ [][NextOnObjects]_vars

---------------------------------------------------------------------------
(* memoize (functional/index.ts):                                           *)
(*     const key = keyFn(...args);                                          *)
(*     if (cache.has(key)) return cache.get(key)!;                          *)
(*     const result = fn(...args); cache.set(key, result); return result;   *)
(* fn is any function: what it does on a call is drawn anew each time.      *)

\* JSON.stringify(args) for one argument: undefined in an array renders as null
JSONstringifyArgs(v) ==
    "[" \o (IF v.t = "undefined" THEN "null" ELSE JSONstringify(v).val.x) \o "]"

KeyFns == {"default", "typeof"}
KeyOf(kf, v) == IF kf = "default" THEN JSONstringifyArgs(v) ELSE v.t

MemoArgs == {Num("1"), Str("1"), Null, Undefined}
FnOutcomes == {Ret(Num("1")), Ret(Undefined), Throw(ErrorObj("fn failed", "callback"))}

\* Map.prototype.has / get / set on the entries in insertion order
MapHas_Defined(entries, key) ==
    \E i \in 1..Len(entries) : entries[i].key = key /\ entries[i].value # Undefined
MapHas(entries, key) == \E i \in 1..Len(entries) : entries[i].key = key
MapGet(entries, key) ==
    IF MapHas(entries, key)
    THEN entries[CHOOSE i \in 1..Len(entries) : entries[i].key = key].value
    ELSE Undefined
MapSet(entries, key, value) ==
    IF \E i \in 1..Len(entries) : entries[i].key = key
    THEN [i \in 1..Len(entries) |->
             IF entries[i].key = key THEN [key |-> key, value |-> value] ELSE entries[i]]
    ELSE Append(entries, [key |-> key, value |-> value])

\* memoize(fn, keyFn): a new memoized function with an empty cache
Memoize ==
    /\ keyFn = "none"
    /\ \E kf \in KeyFns : keyFn' = kf
    /\ cache' = <<>>
    /\ hist' = <<>>
    /\ op' = "memoize"
    /\ args' = <<>>
    /\ log' = <<>>
    /\ outcome' = Ret(Undefined)
    /\ UNCHANGED <<futs, order, pall, jobs, pc, heapVars, limiterVars, loopVars>>

\* a call of the memoized function on argument a; r is what fn does if invoked
Memoized ==
    /\ keyFn # "none"
    /\ Len(hist) < MaxCalls
    /\ \E a \in MemoArgs, r \in FnOutcomes :
        LET key == KeyOf(keyFn, a)
            hit == MapHas(cache, key)
            out == IF hit THEN Ret(MapGet(cache, key)) ELSE r
        IN  /\ args' = [arg |-> a]
            /\ log' = IF hit THEN <<>> ELSE <<[cb |-> "fn", arg |-> a, out |-> r]>>
            /\ outcome' = out
            /\ cache' = IF ~hit /\ r.st = "ret" THEN MapSet(cache, key, r.val) ELSE cache
            /\ hist' = Append(hist, [arg |-> a, key |-> key, invoked |-> ~hit, out |-> out])
    /\ op' = "memoized"
    /\ UNCHANGED <<keyFn, futs, order, pall, jobs, pc, heapVars, limiterVars, loopVars>>

NextMemoize == Memoize \/ Memoized

SpecMemoize == Init /\ [][NextMemoize]_vars

---------------------------------------------------------------------------
(* debounce (functional/index.ts):                                          *)
(*     clearTimeout(timeoutId);                                             *)
(*     timeoutId = setTimeout(() => fn(...args), delay);                    *)
(* The host runs a timeout's callback once, in a task of its own, when the  *)
(* clock has reached the timeout's due time: at the due time or, when the   *)
(* event loop is busy, later.                                               *)

Delays == {1, 2}
CallArgs == {"a", "b"}

\* clearTimeout(id): the timeout with that id, if still pending, is dropped
clearTimeout_Noop(pending, id) == pending
clearTimeout(pending, id) == {tm \in pending : tm.id # id}

\* setTimeout(callback, ms) at time t: a new pending timeout with a new id
setTimeout(pending, id, a, t, ms) ==
    pending \cup {[id |-> id, due |-> t + ms, args |-> a]}

\* the clock advances by a millisecond
Tick ==
    /\ op \in {"debounce", "debounced", "throttle", "throttled"}
    /\ now < MaxTime \/ \E tm \in timers : now < tm.due
    /\ now' = now + 1
    /\ UNCHANGED <<libVars, heapVars, memoVars, loopVars>>
    /\ UNCHANGED <<timers, timeoutId, delay, interval, lastCall, calls, execs>>

\* debounce(fn, delay)
Debounce ==
    /\ op = "idle"
    /\ \E d \in Delays : delay' = d
    /\ op' = "debounce"
    /\ UNCHANGED <<args, log, outcome, futs, order, pall, jobs, pc, heapVars, memoVars, loopVars>>
    /\ UNCHANGED <<now, timers, timeoutId, interval, lastCall, calls, execs>>

\* a call of the debounced function, with arguments a
Debounced ==
    /\ op \in {"debounce", "debounced"}
    /\ Len(calls) < MaxBurst
    /\ \E a \in CallArgs :
        LET id == Len(calls) + 1
        IN  /\ timers' = setTimeout(clearTimeout(timers, timeoutId), id, a, now, delay)
            /\ timeoutId' = id
            /\ calls' = Append(calls, [args |-> a, at |-> now])
            /\ args' = [args |-> a]
    /\ op' = "debounced"
    /\ outcome' = Ret(Undefined)
    /\ UNCHANGED <<log, futs, order, pall, jobs, pc, heapVars, memoVars, loopVars>>
    /\ UNCHANGED <<now, delay, interval, lastCall, execs>>

\* the host runs the callback of a timeout that is due: fn(...args)
TimerFires ==
    /\ \E tm \in timers :
        /\ tm.due <= now
        /\ timers' = timers \ {tm}
        /\ execs' = Append(execs, [call |-> tm.id, args |-> tm.args, at |-> now,
                                   calls |-> Len(calls)])
    /\ UNCHANGED <<libVars, heapVars, memoVars, loopVars>>
    /\ UNCHANGED <<now, timeoutId, delay, interval, lastCall, calls>>

NextDebounce == Debounce \/ Debounced \/ Tick \/ TimerFires

\* the clock does not stop, and a timeout that stays due is run
SpecDebounce ==
    Init /\ [][NextDebounce]_vars /\ WF_vars(Tick) /\ WF_vars(TimerFires)

---------------------------------------------------------------------------
(* throttle (functional/index.ts):                                          *)
(*     let lastCall = 0;                                                    *)
(*     const now = Date.now();                                              *)
(*     if (now - lastCall >= interval) { lastCall = now; fn(...args); }     *)
(* Date.now() counts milliseconds from the epoch of the host's clock: what  *)
(* it reads when the throttled function is made is the host's affair.       *)

Intervals == {1, 2}
ClockReadings == {0, 1, 3}

\* throttle(fn, interval), made when the clock reads t
Throttle ==
    /\ op = "idle"
    /\ \E t \in ClockReadings : now' = t
    /\ \E ms \in Intervals : interval' = ms
    /\ lastCall' = 0
    /\ op' = "throttle"
    /\ UNCHANGED <<args, log, outcome, futs, order, pall, jobs, pc, heapVars, memoVars, loopVars>>
    /\ UNCHANGED <<timers, timeoutId, delay, calls, execs>>

\* a call of the throttled function, with arguments a
Throttled ==
    /\ op \in {"throttle", "throttled"}
    /\ Len(calls) < MaxBurst
    /\ \E a \in CallArgs :
        /\ calls' = Append(calls, [args |-> a, at |-> now])
        /\ args' = [args |-> a]
        /\ IF now - lastCall >= interval
           THEN /\ lastCall' = now
                /\ execs' = Append(execs, [call |-> Len(calls) + 1, args |-> a, at |-> now,
                                           calls |-> Len(calls) + 1])
           ELSE UNCHANGED <<lastCall, execs>>
    /\ op' = "throttled"
    /\ outcome' = Ret(Undefined)
    /\ UNCHANGED <<log, futs, order, pall, jobs, pc, heapVars, memoVars, loopVars>>
    /\ UNCHANGED <<now, timers, timeoutId, delay, interval>>

NextThrottle == Throttle \/ Throttled \/ Tick

SpecThrottle == Init /\ [][NextThrottle]_vars

---------------------------------------------------------------------------
(* range (functional/index.ts):                                             *)
(*     if (end === undefined) { end = start; start = 0; }                   *)
(*     const result = [];                                                   *)
(*     for (let i = start; i < end; i += step) { result.push(i); }          *)
(*     return result;                                                       *)
(* The loop is taken one iteration at a time. A loop that has no end fills  *)
(* result until the host gives up (out of memory); the model stops pushing  *)
(* at MaxIterations, which no loop that ends reaches for the arguments of   *)
(* RangeBounds.                                                             *)

MaxRange == 2
MaxIterations == 2 * MaxRange + 1
RangeBounds == (0 - MaxRange)..MaxRange
RangeSteps == {0 - 2, 0 - 1, 0, 1, 2}
\* the argument lists: range(n), range(start, end), range(start, end, step)
RangeArgs ==
    {<<n>> : n \in RangeBounds}
        \cup (RangeBounds \X RangeBounds)
        \cup (RangeBounds \X RangeBounds \X RangeSteps)

\* the parameters after the default of step and the swap for a missing end
RangeParams(a) ==
    [start |-> IF Len(a) < 2 THEN 0 ELSE a[1],
     end   |-> IF Len(a) < 2 THEN a[1] ELSE a[2],
     step  |-> IF Len(a) < 3 THEN 1 ELSE a[3]]

\* range(start, end, step) up to the first test of the loop
Range ==
    /\ op = "idle"
    /\ \E a \in RangeArgs :
        /\ args' = RangeParams(a)
        /\ rangeI' = RangeParams(a).start
    /\ rangeResult' = <<>>
    /\ op' = "range"
    /\ UNCHANGED <<log, outcome, futs, order, pall, jobs, pc>>
    /\ UNCHANGED <<heapVars, memoVars, limiterVars>>

\* i < end: result.push(i); i += step
RangeIteration ==
    /\ op = "range"
    /\ outcome = Idle
    /\ rangeI < args.end
    /\ Len(rangeResult) < MaxIterations
    /\ rangeResult' = Append(rangeResult, rangeI)
    /\ rangeI' = rangeI + args.step
    /\ UNCHANGED <<libVars, heapVars, memoVars, limiterVars>>

\* !(i < end): return result
RangeReturn ==
    /\ op = "range"
    /\ outcome = Idle
    /\ ~(rangeI < args.end)
    /\ outcome' = Ret(rangeResult)
    /\ UNCHANGED <<op, args, log, futs, order, pall, jobs, pc>>
    /\ UNCHANGED <<heapVars, memoVars, limiterVars, loopVars>>

NextRange == Range \/ RangeIteration \/ RangeReturn

SpecRange == Init /\ [][NextRange]_vars

---------------------------------------------------------------------------
(* Properties *)

Returned == outcome.st \in {"ret", "fulfilled"}
ChainOf(flavor) == op = "andThenChain" /\ args.flavor = flavor

\* the calls that hand a Result / an Option back to the client
ReturnsResult ==
    \/ op \in {"ok", "err", "mapResult", "mapErr", "andThenResult", "orElseResult",
               "filterResult", "combineResults", "tryCatch", "combineResultsAsync",
               "mapResultAsync", "andThenResultAsync", "tryCatchAsync"}
    \/ ChainOf("Result")
ReturnsOption ==
    \/ op \in {"some", "none", "fromNullable", "mapOption", "andThenOption",
               "orElseOption", "filterOption", "map2", "map3", "findSome",
               "combineOptions", "combineOptionsAsync",
               "mapOptionAsync", "andThenOptionAsync"}
    \/ ChainOf("Option")

\* C1: every Result a constructor, tryCatch or a combinator returns satisfies
\* exactly one of isOk and isErr, and every Option a constructor, fromNullable
\* or a combinator returns satisfies exactly one of isSome and isNone.
C1_ExactlyOneVariant ==
    /\ (Returned /\ ReturnsResult) => (isOk(outcome.val) # isErr(outcome.val))
    /\ (Returned /\ ReturnsOption) => (isSome(outcome.val) # isNone(outcome.val))

C1_Witness ==
    /\ op = "tryCatch"
    /\ args.fn.st = "throw"
    /\ outcome.st = "ret"
    /\ isErr(outcome.val) /\ ~isOk(outcome.val)

\* C2: map on Err(e) returns Err(e) and map on None returns None, the transform
\* not invoked; map on Ok(v) invokes the transform once, on v, and returns
\* Ok(f(v)) (Some(f(v)) for Option) when the transform returns.
C2_MapIdentityOnFailure ==
    /\ (op = "mapResult" /\ isErr(args.result)) =>
           (outcome = Ret(args.result) /\ log = <<>>)
    /\ (op = "mapOption" /\ isNone(args.option)) =>
           (outcome = Ret(none) /\ log = <<>>)
    /\ (op = "mapResult" /\ isOk(args.result)) =>
           /\ Len(log) = 1
           /\ log[1].cb = args.fn /\ log[1].arg = args.result.value
           /\ Call(args.fn, args.result.value).st = "ret" =>
                  outcome = Ret(ok(Call(args.fn, args.result.value).val))
    /\ (op = "mapOption" /\ isSome(args.option)) =>
           /\ Len(log) = 1
           /\ log[1].cb = args.fn /\ log[1].arg = args.option.value
           /\ Call(args.fn, args.option.value).st = "ret" =>
                  outcome = Ret(some(Call(args.fn, args.option.value).val))

C2_Witness ==
    /\ op = "mapResult"
    /\ args.result = err(Str("e1")) /\ args.fn = "constant"
    /\ outcome = Ret(err(Str("e1")))
    /\ log = <<>>

\* C3: andThen on Err(e) / None returns Err(e) / None and does not invoke the
\* step; on Ok(v) / Some(v) it invokes the step once and ends exactly as f(v)
\* does. In a chain of andThen calls every step that ran was handed the
\* success of the one before, the chain ran to its last step unless a failure
\* or a throw ended it, and a failure it returns is the first one produced.
C3_AndThenShortCircuit ==
    /\ (op = "andThenResult" /\ isErr(args.result)) =>
           (outcome = Ret(args.result) /\ log = <<>>)
    /\ (op = "andThenOption" /\ isNone(args.option)) =>
           (outcome = Ret(none) /\ log = <<>>)
    /\ (op = "andThenResult" /\ isOk(args.result)) =>
           /\ outcome = Call(args.fn, args.result.value)
           /\ Len(log) = 1 /\ log[1].cb = args.fn /\ log[1].arg = args.result.value
    /\ (op = "andThenOption" /\ isSome(args.option)) =>
           /\ outcome = Call(args.fn, args.option.value)
           /\ Len(log) = 1 /\ log[1].cb = args.fn /\ log[1].arg = args.option.value
    /\ op = "andThenChain" =>
           LET n == Len(log) IN
           /\ n <= Len(args.fns)
           /\ \A j \in 1..n : log[j].cb = args.fns[j]
           /\ \A j \in 1..(n - 1) : log[j].out.st = "ret" /\ ~Failed(log[j].out.val)
           /\ Failed(args.container) => (n = 0 /\ outcome = Ret(args.container))
           /\ ~Failed(args.container) => (n >= 1 /\ outcome = log[n].out)
           /\ n < Len(args.fns) => (outcome.st = "throw" \/ Failed(outcome.val))

C3_Witness ==
    /\ ChainOf("Result")
    /\ args.container = ok(Num("1"))
    /\ args.fns = <<"okSame", "failA", "failB">>
    /\ outcome = Ret(err(Str("A")))
    /\ Len(log) = 2

\* the smallest index of a failure in an array of containers
FirstFailure(cs) == CHOOSE k \in 1..Len(cs) : Failed(cs[k]) /\ \A j \in 1..(k - 1) : ~Failed(cs[j])
Payloads(cs) == [i \in 1..Len(cs) |-> cs[i].value]

\* C4: combine of Results returns Ok of all payloads in input order when every
\* element is Ok (Ok of the empty array for no elements), and otherwise the
\* Err at the smallest index holding one, whatever follows it.
C4_CombineFirstErr ==
    op = "combineResults" =>
        LET rs == args.results IN
        IF \A i \in 1..Len(rs) : isOk(rs[i])
        THEN outcome = Ret(ok(Payloads(rs)))
        ELSE outcome = Ret(rs[FirstFailure(rs)])

C4_Witness ==
    /\ op = "combineResults"
    /\ Len(args.results) = 3
    /\ args.results[1] = ok(Num("0"))
    /\ args.results[2] = err(Str("e2"))
    /\ args.results[3] = err(Str("e1"))
    /\ outcome = Ret(err(Str("e2")))

\* the payloads of the Some elements, in input order
SomePayloads(os) == Payloads(SelectSeq(os, LAMBDA o : o._tag = "Some"))

\* C5: collectSome returns the payloads of exactly the Some elements in input
\* order and never fails; combine of Options returns None when an element is
\* None and otherwise Some of all payloads in input order; combine is Some
\* exactly when collectSome keeps every element, and then both carry the same
\* array.
C5_CollectSomeVsCombine ==
    /\ op = "collectSome" =>
           /\ outcome = Ret(SomePayloads(args.options))
           /\ (Len(outcome.val) = Len(args.options)) <=>
                  isSome(combineOptions(args.options))
    /\ op = "combineOptions" =>
           LET os == args.options IN
           /\ IF \E i \in 1..Len(os) : isNone(os[i])
              THEN outcome = Ret(none)
              ELSE outcome = Ret(some(Payloads(os)))
           /\ isSome(outcome.val) <=> (Len(collectSome(os)) = Len(os))
           /\ isSome(outcome.val) => outcome.val.value = collectSome(os)

C5_Witness ==
    /\ op = "collectSome"
    /\ args.options = <<some(Num("1")), none, some(Num("0"))>>
    /\ outcome = Ret(<<Num("1"), Num("0")>>)

\* C6: tryCatch invokes fn once; when fn returns x it returns Ok(x) and the
\* mapper is not invoked; when fn throws t it returns Err(t) with no mapper
\* and Err(mapper(t)) with a mapper that returns; what fn threw reaches the
\* caller only inside the Err.
C6_TryCatchCapture ==
    op = "tryCatch" =>
        /\ log # <<>> /\ log[1].cb = "fn" /\ log[1].out = args.fn
        /\ args.fn.st = "ret" =>
               (outcome = Ret(ok(args.fn.val)) /\ Len(log) = 1)
        /\ (args.fn.st = "throw" /\ args.errorMapper = "absent") =>
               (outcome = Ret(err(args.fn.val)) /\ Len(log) = 1)
        /\ (args.fn.st = "throw" /\ args.errorMapper # "absent") =>
               /\ Len(log) = 2
               /\ log[2].cb = args.errorMapper /\ log[2].arg = args.fn.val
               /\ Call(args.errorMapper, args.fn.val).st = "ret" =>
                      outcome = Ret(err(Call(args.errorMapper, args.fn.val).val))
        /\ outcome.st = "throw" => (Len(log) = 2 /\ log[2].out.st = "throw")

C6_Witness ==
    /\ op = "tryCatch"
    /\ args.fn = Throw(ErrorObj("boom", "thrown"))
    /\ args.errorMapper = "mapped"
    /\ outcome = Ret(err(Str("mapped:boom")))

\* C7: when combineAsync fulfils, every input promise has fulfilled and the
\* value is combine of the Results (Options) the inputs fulfilled with, taken
\* in input-index order, in whatever order the host settled them: all
\* payloads in index order, or the failure at the smallest index.
C7_CombineAsyncInputOrder ==
    (op \in CombineAsyncOps /\ outcome.st = "fulfilled") =>
        LET resolved == [i \in 1..Len(futs) |-> futs[i].val] IN
        /\ \A i \in 1..Len(futs) : futs[i].st = "fulfilled"
        /\ outcome.val = (IF op = "combineResultsAsync" THEN combineResults(resolved)
                          ELSE combineOptions(resolved))
        /\ IF \E i \in 1..Len(futs) : Failed(resolved[i])
           THEN outcome.val = resolved[FirstFailure(resolved)]
           ELSE outcome.val.value = Payloads(resolved)

C7_Witness ==
    /\ op = "combineResultsAsync"
    /\ order = <<3, 2, 1>>
    /\ outcome = Fulfilled(ok(<<Num("0"), Num("1"), Num("1")>>))

UnsafeOps == {"unwrapResult", "unwrapOption", "expectResult", "expectOption"}
UnsafeInput == IF op \in {"unwrapResult", "expectResult"} THEN args.result ELSE args.option

\* C8, as the specification states it: every operation but unwrap and expect
\* returns normally whatever the callbacks it is given do, and no *Async
\* operation rejects; unwrap and expect throw only on Err / None.
C8_TotalWhateverTheCallbacks ==
    /\ op \notin UnsafeOps => outcome.st \notin {"throw", "rejected"}
    /\ (op \in UnsafeOps /\ outcome.st = "throw") => Failed(UnsafeInput)

\* C8, amended: an operation other than unwrap and expect throws only what a
\* callback it invoked threw (tryCatch only what its error mapper threw, since
\* it captures what fn throws), and an *Async operation rejects only with the
\* reason an input promise rejected with; so each returns normally when its
\* callbacks return and its input promises fulfil. unwrap and expect throw
\* exactly on Err / None, and invoke nothing.
C8_TotalUpToCallbacks ==
    /\ (op \notin UnsafeOps /\ outcome.st = "throw") =>
           /\ log # <<>>
           /\ log[Len(log)].out = Throw(outcome.val)
           /\ ~(op = "tryCatch" /\ Len(log) = 1)
    /\ (op \notin UnsafeOps /\ outcome.st \in {"ret", "fulfilled"}) =>
           \A j \in 1..Len(log) :
               log[j].out.st = "throw" => (op \in {"tryCatch", "tryCatchAsync"} /\ j = 1)
    /\ outcome.st = "rejected" =>
           \/ \E i \in 1..Len(futs) : futs[i] = Rejected(outcome.val)
           \/ log # <<>> /\ log[Len(log)].out = Throw(outcome.val)
    /\ (op = "tryCatchAsync" /\ outcome.st = "rejected") =>
           (Len(log) = 2 /\ log[2].out = Throw(outcome.val))
    /\ (/\ op \in AsyncOps
        /\ jobs = <<>>
        /\ \A i \in 1..Len(futs) : futs[i].st = "fulfilled"
        /\ \A j \in 1..Len(log) : log[j].out.st = "ret")
       => outcome.st = "fulfilled"
    /\ op \in UnsafeOps =>
           /\ log = <<>>
           /\ outcome.st = (IF Failed(UnsafeInput) THEN "throw" ELSE "ret")

C8_Witness ==
    /\ op = "mapResult"
    /\ args.fn = "throws"
    /\ outcome = Throw(ErrorObj("callback failed", "callback"))

\* a rendering of an error payload that is not an Error: its JSON text
Rendering(e) ==
    CASE e.t = "string"    -> "\"" \o e.x \o "\""
      [] e = Circular      -> "{\"self\":[Circular]}"
      [] OTHER             -> e.x

\* C9: unwrap and expect return the payload of Ok / Some. On Err(e) unwrap
\* throws e itself when e is an Error and otherwise a new Error whose message
\* carries a rendering of e; on None unwrap throws a new Error; expect on
\* Err / None throws a new Error whose message is the caller's message, not
\* the error payload.
C9_UnwrapExpect ==
    /\ (op \in UnsafeOps /\ ~Failed(UnsafeInput)) => outcome = Ret(UnsafeInput.value)
    /\ (op = "unwrapResult" /\ isErr(args.result)) =>
           IF InstanceofError(args.result.error)
           THEN outcome = Throw(args.result.error)
           ELSE outcome = Throw(NewError("Unwrap failed: " \o Rendering(args.result.error)))
    /\ (op = "unwrapOption" /\ isNone(args.option)) =>
           (outcome.st = "throw" /\ outcome.val.t = "Error" /\ outcome.val.id = "library")
    /\ (op \in {"expectResult", "expectOption"} /\ Failed(UnsafeInput)) =>
           outcome = Throw(NewError(args.message))

\* C10: unwrapOr returns the payload of Ok / Some, whatever the payload is,
\* and the default on Err / None.
C10_UnwrapOrByVariant ==
    /\ op = "unwrapOrResult" =>
           outcome = Ret(IF args.result._tag = "Ok" THEN args.result.value
                         ELSE args.defaultValue)
    /\ op = "unwrapOrOption" =>
           outcome = Ret(IF args.option._tag = "Some" THEN args.option.value
                         ELSE args.defaultValue)

C10_Witness ==
    /\ op = "unwrapOrOption"
    /\ args.option = some(Undefined) /\ args.defaultValue = Num("9")
    /\ outcome = Ret(Undefined)

\* C11: fromNullable(v) returns None exactly when v is null or undefined, and
\* Some(v) for every other value, the falsy values 0, "" and false included.
C11_FromNullableBoundary ==
    op = "fromNullable" =>
        /\ (outcome = Ret(none)) <=> (args.value \in {Null, Undefined})
        /\ args.value \notin {Null, Undefined} => outcome = Ret(some(args.value))
        /\ log = <<>>

C11_Witness ==
    /\ op = "fromNullable"
    /\ args.value = False
    /\ outcome = Ret(some(False))

\* C12: match invokes exactly one branch, the ok (some) branch with the value
\* on Ok (Some) and the err branch with the error on Err (the none branch on
\* None), and ends as that branch does; with the branches v => ok(v) and
\* e => err(e) it returns a Result of the variant and payload of its input.
C12_MatchOneBranch ==
    /\ op = "matchResult" =>
           /\ Len(log) = 1
           /\ isOk(args.result) =>
                  log[1] = Invoked(args.patterns.ok, args.result.value)
           /\ isErr(args.result) =>
                  log[1] = Invoked(args.patterns.err, args.result.error)
           /\ outcome = log[1].out
           /\ args.patterns = [ok |-> "okSame", err |-> "errSame"] =>
                  outcome = Ret(args.result)
    /\ op = "matchOption" =>
           /\ Len(log) = 1
           /\ isSome(args.option) =>
                  log[1] = Invoked(args.patterns.some, args.option.value)
           /\ isNone(args.option) => log[1].cb = args.patterns.none
           /\ outcome = log[1].out
           /\ args.patterns = [some |-> "someSame", none |-> "toNone"] =>
                  outcome = Ret(args.option)

C12_Witness ==
    /\ op = "matchResult"
    /\ args.result = err(Str("e1"))
    /\ args.patterns = [ok |-> "okSame", err |-> "errSame"]
    /\ outcome = Ret(err(Str("e1")))
    /\ Len(log) = 1 /\ log[1].cb = "errSame"

\* the synchronous operation an *Async one is the dual of
SyncTwin(name, container, fn) ==
    CASE name = "mapResultAsync"     -> mapResult(container, fn)
      [] name = "mapOptionAsync"     -> mapOption(container, fn)
      [] name = "andThenResultAsync" -> andThenResult(container, fn)
      [] name = "andThenOptionAsync" -> andThenOption(container, fn)

\* C13: mapAsync and andThenAsync invoke nothing and stay pending until the
\* input promise has settled. When they fulfil, the input fulfilled; on a
\* resolved Err / None the transform was not invoked and the value is that
\* failure, as for the synchronous map / andThen; on Ok(v) / Some(v) the
\* transform was invoked once, on v, what it returned was awaited, and the
\* value is the awaited value, wrapped in Ok / Some by mapAsync; when the
\* transform returns no promise this is what the synchronous operation returns.
C13_AsyncDuals ==
    op \in MapAsyncOps \cup AndThenAsyncOps =>
        /\ (futs[1].st = "pending" \/ pc = "awaitInput") =>
               (log = <<>> /\ outcome = Pending /\ Len(futs) = 1)
        /\ outcome.st = "fulfilled" =>
               LET input == futs[1].val
                   twin == SyncTwin(op, input, args.fn)
               IN  /\ futs[1].st = "fulfilled"
                   /\ log = twin.log
                   /\ Failed(input) =>
                          /\ log = <<>> /\ Len(futs) = 1
                          /\ Ret(outcome.val) = [st |-> twin.st, val |-> twin.val]
                          /\ outcome.val = (IF op \in OnResults THEN input ELSE none)
                   /\ ~Failed(input) =>
                          /\ log = <<Invoked(args.fn, input.value)>>
                          /\ Len(futs) = 2 /\ futs[2].st = "fulfilled"
                          /\ outcome.val =
                                 (CASE op = "mapResultAsync" -> ok(futs[2].val)
                                    [] op = "mapOptionAsync" -> some(futs[2].val)
                                    [] OTHER                 -> futs[2].val)
                          /\ ~IsPromise(log[1].out.val) =>
                                 /\ futs[2].val = log[1].out.val
                                 /\ Ret(outcome.val) = [st |-> twin.st, val |-> twin.val]

C13_Witness ==
    /\ op = "mapResultAsync"
    /\ args.fn = "async"
    /\ futs = <<Fulfilled(ok(Num("0"))), Fulfilled(Num("1"))>>
    /\ outcome = Fulfilled(ok(Num("1")))

\* what tryCatchAsync settles with once fn has failed with t
CapturedAsync(t, errorMapper) ==
    IF errorMapper = "absent" THEN Fulfilled(err(t))
    ELSE IF Call(errorMapper, t).st = "ret" THEN Fulfilled(err(Call(errorMapper, t).val))
    ELSE Rejected(Call(errorMapper, t).val)

\* C14: tryCatchAsync invokes fn once. When fn throws t before returning a
\* promise the call settles at once, and when the promise fn returned rejects
\* with t it settles in the continuation, both times with Err(t) for no mapper
\* and Err(mapper(t)) for a mapper that returns; when the promise fulfils with
\* x it settles with Ok(x), the mapper not invoked. It rejects only with what
\* the mapper threw, never with what fn threw or rejected with.
C14_TryCatchAsyncCapture ==
    op = "tryCatchAsync" =>
        /\ log # <<>> /\ log[1].cb = "fn" /\ log[1].out = args.fn
        /\ args.fn.st = "throw" =>
               /\ outcome = CapturedAsync(args.fn.val, args.errorMapper)
               /\ futs = <<>>
        /\ args.fn.st = "ret" =>
               /\ Len(futs) = 1
               /\ (futs[1].st = "pending" \/ jobs # <<>>) => outcome = Pending
               /\ (futs[1].st = "fulfilled" /\ jobs = <<>>) =>
                      (outcome = Fulfilled(ok(futs[1].val)) /\ Len(log) = 1)
               /\ (futs[1].st = "rejected" /\ jobs = <<>>) =>
                      outcome = CapturedAsync(futs[1].val, args.errorMapper)
        /\ outcome.st = "rejected" =>
               /\ Len(log) = 2
               /\ log[2].cb = args.errorMapper
               /\ log[2].out = Throw(outcome.val)
        /\ Len(log) = 2 => log[2].cb = args.errorMapper /\ args.errorMapper # "absent"

C14_Witness ==
    /\ op = "tryCatchAsync"
    /\ args.fn = Ret(NewPromise)
    /\ args.errorMapper = "mapped"
    /\ futs = <<Rejected(ErrorObj("rejected", "host"))>>
    /\ outcome = Fulfilled(err(Str("mapped:rejected")))

\* C15: whatever calls a client has made on the containers it holds, each of
\* them has the variant tag and the payload it was constructed with, and the
\* shared none is the payload-free None; the container a combinator returns
\* holds the value the call returned, and it is the input only where the
\* call returned the input's own value.
C15_InputsNeverMutated ==
    /\ Len(heap) = Len(born)
    /\ \A a \in 1..Len(heap) : heap[a] = born[a]
    /\ heap[NoneRef] = [_tag |-> "None"]
    /\ ref # 0 => (outcome.st = "ret" /\ heap[ref] = outcome.val)
    /\ (ref # 0 /\ "self" \in DOMAIN args /\ ref = args.self) =>
           outcome.val = born[args.self]

C15_Witness ==
    /\ op = "mapResult"
    /\ args = [self |-> 2, fns |-> <<"constant">>]
    /\ Len(heap) = 4
    /\ heap[2] = ok(Num("1"))
    /\ ref = 4
    /\ heap[4] = ok(Str("k"))

\* C16: filter on Err(e) returns Err(e) and filter on None returns None, with
\* nothing invoked. On Ok(v) / Some(v) the predicate is invoked once, on v:
\* when it is true the input is returned and errorFn is not invoked; when it
\* is false Option's filter returns None and Result's filter invokes errorFn
\* once, on v, and returns Err(errorFn(v)).
C16_FilterByPredicate ==
    /\ (op = "filterResult" /\ "result" \in DOMAIN args) =>
           LET r == args.result IN
           /\ isErr(r) => (outcome = Ret(r) /\ log = <<>>)
           /\ isOk(r) =>
                  LET p == Call(args.predicate, r.value)
                      e == Call(args.errorFn, r.value)
                  IN  /\ log # <<>> /\ log[1] = Invoked(args.predicate, r.value)
                      /\ p = Ret(TRUE) => (outcome = Ret(r) /\ Len(log) = 1)
                      /\ p = Ret(FALSE) =>
                             /\ Len(log) = 2
                             /\ log[2] = Invoked(args.errorFn, r.value)
                             /\ e.st = "ret" => outcome = Ret(err(e.val))
    /\ (op = "filterOption" /\ "option" \in DOMAIN args) =>
           LET o == args.option IN
           /\ isNone(o) => (outcome = Ret(none) /\ log = <<>>)
           /\ isSome(o) =>
                  LET p == Call(args.predicate, o.value)
                  IN  /\ log = <<Invoked(args.predicate, o.value)>>
                      /\ p = Ret(TRUE) => outcome = Ret(o)
                      /\ p = Ret(FALSE) => outcome = Ret(none)

C16_Witness ==
    /\ op = "filterResult"
    /\ args = [result |-> ok(Null), predicate |-> "notNullish", errorFn |-> "constant"]
    /\ outcome = Ret(err(Str("k")))
    /\ Len(log) = 2

\* C17: mapErr and orElse on Ok(v) return Ok(v) and orElse on Some(v) returns
\* Some(v), the callback not invoked; mapErr on Err(e) invokes the callback
\* once, on e, and returns Err(f(e)); orElse on Err(e) invokes it once, on e,
\* and ends exactly as f(e); orElse on None invokes it once, with no
\* argument, and ends exactly as f().
C17_FailureSideMirror ==
    /\ (op = "mapErr" /\ "result" \in DOMAIN args) =>
           LET r == args.result IN
           /\ isOk(r) => (outcome = Ret(r) /\ log = <<>>)
           /\ isErr(r) =>
                  /\ log = <<Invoked(args.fn, r.error)>>
                  /\ Call(args.fn, r.error).st = "ret" =>
                         outcome = Ret(err(Call(args.fn, r.error).val))
    /\ (op = "orElseResult" /\ "result" \in DOMAIN args) =>
           LET r == args.result IN
           /\ isOk(r) => (outcome = Ret(r) /\ log = <<>>)
           /\ isErr(r) =>
                  /\ log = <<Invoked(args.fn, r.error)>>
                  /\ outcome = Call(args.fn, r.error)
    /\ (op = "orElseOption" /\ "option" \in DOMAIN args) =>
           LET o == args.option IN
           /\ isSome(o) => (outcome = Ret(o) /\ log = <<>>)
           /\ isNone(o) =>
                  /\ log = <<Invoked(args.fn, Undefined)>>
                  /\ outcome = Call(args.fn, Undefined)

C17_Witness ==
    /\ op = "orElseResult"
    /\ args = [result |-> err(Str("e1")), fn |-> "failB"]
    /\ outcome = Ret(err(Str("B")))
    /\ Len(log) = 1

\* the calls of the history made with key k, and those of them that invoked fn
CallsWith(k) == {i \in 1..Len(hist) : hist[i].key = k}
InvocationsWith(k) == {i \in CallsWith(k) : hist[i].invoked}
ReturnsWith(k) == {i \in InvocationsWith(k) : hist[i].out.st = "ret"}
KeysProduced == {hist[i].key : i \in 1..Len(hist)}
Cached(k) == {cache[i].value : i \in {j \in 1..Len(cache) : cache[j].key = k}}

\* C18, as the specification states it: fn has been invoked exactly once for
\* each key that keyFn produced.
C18_OncePerKey ==
    \A k \in KeysProduced : Cardinality(InvocationsWith(k)) = 1

\* C18, amended: for each key that keyFn produced, fn has returned at most
\* once; it was invoked in the first call with the key, and again in exactly
\* the calls before which every invocation with the key had thrown; a call
\* that invokes fn ends as fn does, and every other call returns the value fn
\* returned for the key, undefined included; the cache holds exactly the keys
\* fn has returned for, each once, with that value, in the order of the
\* returns: no entry is evicted or overwritten.
C18_OncePerReturnedKey ==
    /\ \A k \in KeysProduced :
           /\ Cardinality(ReturnsWith(k)) <= 1
           /\ \A i \in CallsWith(k) :
                  hist[i].invoked <=> (\A j \in ReturnsWith(k) : j >= i)
           /\ \A i \in CallsWith(k) : ~hist[i].invoked =>
                  \E j \in ReturnsWith(k) : j < i /\ hist[i].out = hist[j].out
           /\ Cached(k) = {hist[j].out.val : j \in ReturnsWith(k)}
    /\ \A i, j \in 1..Len(cache) : cache[i].key = cache[j].key => i = j
    /\ \A i \in 1..Len(cache) : cache[i].key \in KeysProduced
    /\ \A i, j \in 1..Len(cache) :
           i < j => (\A x \in ReturnsWith(cache[i].key), y \in ReturnsWith(cache[j].key) : x < y)

C18_Witness ==
    /\ Len(hist) = 3
    /\ hist[1].key = hist[2].key /\ hist[2].key = hist[3].key
    /\ hist[1].invoked /\ hist[1].out.st = "throw"
    /\ hist[2].invoked /\ hist[2].out = Ret(Undefined)
    /\ ~hist[3].invoked /\ hist[3].out = Ret(Undefined)
    /\ hist[2].arg # hist[3].arg

Reverse(s) == [i \in 1..Len(s) |-> s[Len(s) - i + 1]]

\* the transforms in the order the call is to apply them
ApplyOrder == IF op = "pipe" THEN args.functions ELSE Reverse(args.functions)

\* C19: pipe applies its transforms left to right and compose right to left,
\* each to what the one before returned, the first to the value: every
\* transform is invoked once unless an earlier one threw, the call ends as
\* the last invocation did, and with no transforms it returns the value;
\* compose(f1, ..., fn)(x) ends as pipe(x, fn, ..., f1) does, with the same
\* invocations.
C19_PipeCompose ==
    op \in {"pipe", "compose"} =>
        LET n == Len(log) IN
        /\ n <= Len(ApplyOrder)
        /\ \A j \in 1..n :
               /\ log[j].cb = ApplyOrder[j]
               /\ log[j].arg = (IF j = 1 THEN args.value ELSE log[j - 1].out.val)
               /\ j < n => log[j].out.st = "ret"
        /\ outcome = (IF n = 0 THEN Ret(args.value) ELSE log[n].out)
        /\ n < Len(ApplyOrder) => outcome.st = "throw"
        /\ (\A j \in 1..Len(args.functions) : args.functions[j] # "throws") =>
               (n = Len(args.functions) /\ outcome.st = "ret")
        /\ op = "compose" =>
               Did(outcome, log) = pipe(args.value, Reverse(args.functions))

C19_Witness ==
    /\ op = "compose"
    /\ args = [value |-> Str("x"), functions |-> <<"appendA", "appendB", "appendB">>]
    /\ outcome = Ret(Str("xbba"))
    /\ Len(log) = 3

\* C20: safeGet(array, i) is None when i is out of bounds or array[i] is
\* undefined and Some(array[i]) otherwise; safeProp(obj, key) is None when
\* obj[key] is undefined and Some(obj[key]) otherwise; safeJsonParse(s) is None
\* when JSON.parse throws and Some of what it returns otherwise; none throws.
C20_SafeAccessors ==
    /\ op = "safeGet" =>
           LET element == ArrayAt(args.array, args.index)
           IN  outcome = Ret(IF args.index < 0 \/ args.index >= Len(args.array)
                                \/ element = Undefined
                             THEN none ELSE some(element))
    /\ op = "safeProp" =>
           outcome = Ret(IF PropAt(args.obj, args.key) = Undefined THEN none
                         ELSE some(PropAt(args.obj, args.key)))
    /\ op = "safeJsonParse" =>
           outcome = Ret(IF JSONparse(args.json).st = "throw" THEN none
                         ELSE some(JSONparse(args.json).val))

\* C21: combineAsync does not settle early on a failure value: while an input
\* promise is pending and none has rejected the call is pending, also when an
\* input has already fulfilled with Err / None; once it has fulfilled, every
\* input has fulfilled, Promise.all has collected every value, and the value
\* is combine of them; so a call with an input that never settles, and none
\* that rejects, never settles.
C21_CombineAsyncWaitsForAll ==
    op \in CombineAsyncOps =>
        /\ ((\E i \in 1..Len(futs) : futs[i].st = "pending")
            /\ (\A i \in 1..Len(futs) : futs[i].st # "rejected"))
           => (outcome = Pending /\ pall.st = "pending")
        /\ outcome.st = "fulfilled" =>
               /\ \A i \in 1..Len(futs) : futs[i].st = "fulfilled"
               /\ pall.left = 0
               /\ pall.values = [i \in 1..Len(futs) |-> futs[i].val]
               /\ outcome.val = combineAsyncReturn(op, pall.values)
        /\ pall.st = "pending" => pall.left =
               Cardinality({i \in 1..Len(futs) : pall.values[i] = Hole})

C21_Witness ==
    /\ op = "combineResultsAsync"
    /\ Len(futs) = 3
    /\ futs[1] = Fulfilled(err(Str("e1")))
    /\ futs[2] = Pending
    /\ futs[3] = Fulfilled(ok(Num("1")))
    /\ jobs = <<>>
    /\ pall.left = 1
    /\ outcome = Pending

\* the calls of the debounced function that fn has been executed for
Executed(i) == \E k \in 1..Len(execs) : execs[k].call = i
\* the time between call i and the call after it
Gap(i) == calls[i + 1].at - calls[i].at

\* C22, as the specification states it: of two consecutive calls the earlier
\* is executed exactly when the later does not arrive within delay after it.
C22_ExecutedExactlyWhenQuiet ==
    op = "debounced" =>
        \A i \in 1..(Len(calls) - 1) :
            /\ Gap(i) < delay => ~Executed(i)
            /\ Gap(i) > delay => Executed(i)

\* what holds of a debounced function in every state
DebounceSafety ==
    op = "debounced" =>
        /\ Cardinality(timers) <= 1
        /\ \A tm \in timers :
               /\ tm.id = timeoutId /\ tm.id = Len(calls)
               /\ tm.args = calls[tm.id].args
               /\ tm.due = calls[tm.id].at + delay
        /\ \A k \in 1..Len(execs) :
               LET e == execs[k] IN
               /\ e.args = calls[e.call].args
               /\ e.at >= calls[e.call].at + delay
               /\ e.calls = e.call
               /\ e.call < Len(calls) => e.at <= calls[e.call + 1].at
               /\ \A j \in 1..Len(execs) : execs[j].call = e.call => j = k
        /\ \A i \in 1..(Len(calls) - 1) : Gap(i) < delay => ~Executed(i)
        /\ calls # <<>> => ((timers # {}) # Executed(Len(calls)))

\* C22, amended: at most one execution is pending, that of the latest call;
\* a call cancels the pending execution, so fn is executed for a call exactly
\* when its timeout runs before the next call arrives, which is never earlier
\* than delay after the call and never when the next call arrives within
\* delay; it runs once, with that call's arguments; and once calls stop the
\* last call is executed.
C22_DebounceLatestCall ==
    /\ []DebounceSafety
    /\ <>[](calls # <<>> => Executed(Len(calls)))

C22_Witness ==
    /\ op = "debounced"
    /\ delay = 2
    /\ Len(calls) = 3
    /\ calls[1] = [args |-> "a", at |-> 0]
    /\ calls[2] = [args |-> "b", at |-> 1]
    /\ execs = <<[call |-> 2, args |-> "b", at |-> 3, calls |-> 2]>>
    /\ calls[3].at = 4
    /\ Cardinality(timers) = 1

\* the calls before call i that executed fn
ExecutedBefore(i) == {j \in 1..(i - 1) : Executed(j)}
\* the time of the latest of them
PreviousExecution(i) ==
    calls[CHOOSE j \in ExecutedBefore(i) : \A k \in ExecutedBefore(i) : k <= j].at

\* C23: the first call of a throttled function executes fn, and a later call
\* executes it exactly when at least interval milliseconds of clock time have
\* passed since the previous call that executed it; an execution happens in
\* its call, with the call's arguments, so a suppressed call is never
\* executed later, and two executions are at least interval apart.
C23_ThrottleOncePerInterval ==
    op = "throttled" =>
        /\ \A i \in 1..Len(calls) :
               Executed(i) <=>
                   \/ i = 1
                   \/ /\ ExecutedBefore(i) # {}
                      /\ calls[i].at - PreviousExecution(i) >= interval
        /\ \A k \in 1..Len(execs) :
               /\ execs[k].calls = execs[k].call
               /\ execs[k].at = calls[execs[k].call].at
               /\ execs[k].args = calls[execs[k].call].args
        /\ \A j, k \in 1..Len(execs) : j < k => execs[k].at - execs[j].at >= interval

\* the length and the elements of Python's range(start, end, step), step # 0
PyLen(start, end, step) ==
    IF step > 0
    THEN IF start < end THEN (end - start + step - 1) \div step ELSE 0
    ELSE IF start > end THEN (start - end - step - 1) \div (0 - step) ELSE 0
PyRange(start, end, step) ==
    [k \in 1..PyLen(start, end, step) |-> start + (k - 1) * step]
Distance(a, b) == IF a < b THEN b - a ELSE a - b

\* C24: range behaves like Python's range: the array it returns is start,
\* start + step, ... up to but excluding end (descending for a negative
\* step), and every call terminates with a finite array: the loop never
\* pushes more elements than there are integers between start and end.
C24_RangeLikePython ==
    op = "range" =>
        /\ Len(rangeResult) <= Distance(args.start, args.end)
        /\ outcome # Idle /\ args.step # 0 =>
               outcome = Ret(PyRange(args.start, args.end, args.step))

====
